---- MODULE Spec2Model ----
(***************************************************************************)
(* Presence and room state store of the WebRTC signaling server: the       *)
(* Redis-backed store with its in-memory fallback (rooms store), the        *)
(* availability flag of the Redis client, and the socket handlers that      *)
(* call the store.                                                          *)
(*                                                                          *)
(* One process per socket (socket.id is the member id).  A store operation  *)
(* on the memory backend runs in one step (it contains no await); on the    *)
(* Redis backend every awaited Redis command is one step, so the commands   *)
(* of different sockets interleave exactly at the awaits.  Redis executes   *)
(* the commands of the single client connection in the order they are       *)
(* issued, so a command takes effect in the step that issues it (the read   *)
(* of getUserSession in the step that receives its reply).  While the       *)
(* connection is down, a call in progress waits for it to come back or has  *)
(* its command rejected and throws (SpecFail, LiveFail).                    *)
(***************************************************************************)
EXTENDS Integers, Sequences, FiniteSets, TLC

(***************************************************************************)
(* Bounds of the model.                                                     *)
(***************************************************************************)
\* Date.now() takes the values 0..MaxClock.
MaxClock == 3
\* ROOM_TTL measured in clock periods (one Tick is 1/TtlTicks of 24 hours).
TtlTicks == 2
\* Direct store calls started in one run of SpecStore, of SpecRace, and intents
\* sent in one run of Spec.  (An orphaned room takes three calls and two clock
\* periods to arise, so the recovery branches run in SpecStore and SpecRace, and
\* in Spec from three intents on.)
MaxCalls == 3
MaxRaceCalls == 4
MaxIntents == 2
\* store calls of SpecMember: a createRoom, two joins, a leave and its repetition
MaxMemberCalls == 5
\* intents sent in one run of SpecFail: join-room, start-transcription, disconnect
MaxFailIntents == 3
\* intents sent in one run of SpecOrder: two joins or a join and a leave, then
\* the disconnect
MaxOrderIntents == 3
\* messages appended in one run of SpecChat: half as many again as the log keeps
MaxAppends == 150
\* direct store calls in one run of LiveGc
MaxGcCalls == 3
\* intents in one run of SpecOrphan: a creation, the join of a member and the
\* join of another after the record has expired
MaxOrphanIntents == 3
\* intents in one run of SpecLocked: a creation, a join and one more while the
\* room has its member
MaxLockedIntents == 3

Members == {"a", "b"}
Rooms == {"r1", "r2"}

\* JS null / undefined (a default parameter turns undefined into null); a display
\* name is a tuple of strings, the empty one standing for null and ''.
NoPw == "<null>"
NoName == <<>>
\* password arguments a caller may supply
Passwords == {NoPw, "", "p", "q"}

ROOM_TTL == TtlTicks

(***************************************************************************)
(* Small JS helpers.                                                        *)
(***************************************************************************)
\* truthiness of a string-or-null value: null and '' are falsy
\* variant: the empty string counts as a password
TruthyNonNull(v) == v /= NoPw

Truthy(v) == v /= NoPw /\ v /= ""

\* password || ''
OrEmpty(v) == IF Truthy(v) THEN v ELSE ""

\* password ? '1' : '0'
FlagOf(v) == IF Truthy(v) THEN "1" ELSE "0"

\* Number.prototype.toString(): the decimal digits of a natural number
RECURSIVE NumToString(_)
NumToString(n) == IF n < 10 THEN <<n>> ELSE Append(NumToString(n \div 10), n % 10)

\* parseInt(s, 10) of a digit string
RECURSIVE ParseInt(_)
ParseInt(s) ==
  IF Len(s) = 0 THEN 0
  ELSE 10 * ParseInt(SubSeq(s, 1, Len(s) - 1)) + s[Len(s)]

\* `User-${socketId.slice(0, 6)}`
DefaultName(socketId) == <<"User-", socketId>>

\* displayName || `User-${socketId.slice(0, 6)}`
UserDisplayName(socketId, displayName) ==
  IF displayName /= NoName THEN displayName
  ELSE DefaultName(socketId)

\* JSON.stringify({id, displayName}) and JSON.parse of it
JsonStringify(u) == <<"id", u.id, "displayName", u.displayName>>
JsonParse(s) == [id |-> s[2], displayName |-> s[4]]

(***************************************************************************)
(* Maps (JS Map, Redis keyspace, Redis hash): functions on a finite domain. *)
(***************************************************************************)
EmptyMap == << >>
Has(f, k) == k \in DOMAIN f
Put(f, k, v) == [x \in (DOMAIN f) \cup {k} |-> IF x = k THEN v ELSE f[x]]
Drop(f, k) == [x \in (DOMAIN f) \ {k} |-> f[x]]
Merge(f, g) == [x \in (DOMAIN f) \cup (DOMAIN g) |-> IF x \in DOMAIN g THEN g[x] ELSE f[x]]
Size(f) == Cardinality(DOMAIN f)
Values(f) == {f[x] : x \in DOMAIN f}

(***************************************************************************)
(* Key names of the Redis layout.                                           *)
(***************************************************************************)
KeyRoom(roomId) == <<"room", roomId>>
KeyRoomMembers(roomId) == <<"room", roomId, "members">>
KeyRoomChat(roomId) == <<"room", roomId, "chat">>
KeyUser(socketId) == <<"user", socketId>>
KeyActiveRooms == <<"active_rooms">>

(***************************************************************************)
(* Redis commands on a database D = [data, ttl]: data maps the existing     *)
(* keys to their values, ttl maps the keys that carry a TTL to the          *)
(* remaining lifetime.  A hash, list or set that becomes empty is deleted.  *)
(***************************************************************************)
EmptyDb == [data |-> EmptyMap, ttl |-> EmptyMap]

Exists(D, k) == Has(D.data, k)

Del(D, k) == [data |-> Drop(D.data, k), ttl |-> Drop(D.ttl, k)]

HGetAll(D, k) == IF Exists(D, k) THEN D.data[k] ELSE EmptyMap

HLen(D, k) == Size(HGetAll(D, k))

\* HSET key field value [field value ...]: sets the given fields, keeps the others
HSet(D, k, fields) == [D EXCEPT !.data = Put(D.data, k, Merge(HGetAll(D, k), fields))]

HSetField(D, k, f, v) == HSet(D, k, Put(EmptyMap, f, v))

\* variant: hdel removes nothing
HDelKept(D, k, f) == D

HDel(D, k, f) ==
  LET h == Drop(HGetAll(D, k), f)
  IN  IF Size(h) = 0 THEN Del(D, k) ELSE [D EXCEPT !.data = Put(D.data, k, h)]

Expire(D, k, t) == IF Exists(D, k) THEN [D EXCEPT !.ttl = Put(D.ttl, k, t)] ELSE D

SMembers(D, k) == IF Exists(D, k) THEN D.data[k] ELSE {}

SAdd(D, k, x) == [D EXCEPT !.data = Put(D.data, k, SMembers(D, k) \cup {x})]

SRem(D, k, x) ==
  LET s == SMembers(D, k) \ {x}
  IN  IF s = {} THEN Del(D, k) ELSE [D EXCEPT !.data = Put(D.data, k, s)]

LAll(D, k) == IF Exists(D, k) THEN D.data[k] ELSE <<>>

LPush(D, k, v) == [D EXCEPT !.data = Put(D.data, k, <<v>> \o LAll(D, k))]

\* LTRIM key 0 stop
LTrim(D, k, stop) ==
  LET l == LAll(D, k)
      t == SubSeq(l, 1, IF Len(l) < stop + 1 THEN Len(l) ELSE stop + 1)
  IN  IF Len(t) = 0 THEN Del(D, k) ELSE [D EXCEPT !.data = Put(D.data, k, t)]

\* LRANGE key 0 stop (stop = -1: to the end; stop < -1: counted from the end)
LRange(D, k, stop) ==
  LET l == LAll(D, k)
      e == IF stop < 0 THEN Len(l) + stop + 1 ELSE stop + 1
  IN  SubSeq(l, 1, IF Len(l) < e THEN Len(l) ELSE e)

\* one clock period passes: every TTL shrinks, a key whose TTL ends is deleted
ExpireTick(D) ==
  LET dead == {k \in DOMAIN D.ttl : D.ttl[k] <= 1}
  IN  [data |-> [k \in (DOMAIN D.data) \ dead |-> D.data[k]],
       ttl  |-> [k \in (DOMAIN D.ttl) \ dead |-> D.ttl[k] - 1]]

RECURSIVE Reverse(_)
Reverse(s) == IF Len(s) = 0 THEN <<>> ELSE Append(Reverse(Tail(s)), Head(s))

(***************************************************************************)
(* State.                                                                   *)
(***************************************************************************)
VARIABLES
  redisAvailable,  \* isRedisAvailable(): isRedisConnected && redis.status === 'ready'
  redis,           \* the Redis database: [data, ttl]
  memoryStore,     \* the in-memory fallback: [rooms, members, users, chat] of Maps
  now,             \* the value Date.now() returns
  proc,            \* per socket: the running handler / store call and its locals
  calls,           \* the number of calls started so far
  socket,          \* per socket: connected, currentRoomId, displayName, rooms joined
  just,            \* history: the socket whose call returned in the last step
  ref              \* history: per room, joins minus leaves in return order: those
                   \* of each backend (emptied when its TTL ends the membership
                   \* key), and those of both together ("all")

vars == <<redisAvailable, redis, memoryStore, now, proc, calls, socket, just, ref>>

Backends == {"redis", "memory"}
None == "<none>"

\* the backend a call starting now uses
Active == IF redisAvailable THEN "redis" ELSE "memory"

\* what a store call returns; recovering and emptied record the branch taken
NoRet ==
  [kind |-> "none", threw |-> FALSE, success |-> FALSE, error |-> "",
   requiresPassword |-> FALSE, hasPassword |-> FALSE, exists |-> FALSE,
   userCount |-> 0, startTime |-> 0, users |-> {}, value |-> <<>>,
   recovering |-> FALSE, emptied |-> FALSE, fresh |-> FALSE]

(***************************************************************************)
(* Views of the two backends.                                               *)
(***************************************************************************)
\* the room record (a hash), empty when absent
RoomOn(b, roomId) ==
  IF b = "redis" THEN HGetAll(redis, KeyRoom(roomId))
  ELSE IF Has(memoryStore.rooms, roomId) THEN memoryStore.rooms[roomId] ELSE EmptyMap

\* the membership of a room: member id -> {id, displayName}
MembersOn(b, roomId) ==
  IF b = "redis"
  THEN LET h == HGetAll(redis, KeyRoomMembers(roomId))
       IN  [m \in DOMAIN h |-> JsonParse(h[m])]
  ELSE IF Has(memoryStore.members, roomId) THEN memoryStore.members[roomId] ELSE EmptyMap

MemberIds(b, roomId) == DOMAIN MembersOn(b, roomId)

\* the session of a socket (a hash), empty when absent
SessionOn(b, socketId) ==
  IF b = "redis" THEN HGetAll(redis, KeyUser(socketId))
  ELSE IF Has(memoryStore.users, socketId) THEN memoryStore.users[socketId] ELSE EmptyMap

\* the chat log, newest first
ChatOn(b, roomId) ==
  IF b = "redis" THEN LAll(redis, KeyRoomChat(roomId))
  ELSE IF Has(memoryStore.chat, roomId) THEN memoryStore.chat[roomId] ELSE <<>>

\* what a call finds when it starts
Snap(b, roomId, socketId) ==
  [room |-> RoomOn(b, roomId), members |-> MembersOn(b, roomId),
   session |-> SessionOn(b, socketId), chat |-> ChatOn(b, roomId),
   active |-> roomId \in SMembers(redis, KeyActiveRooms)]

NoSnap == [room |-> EmptyMap, members |-> EmptyMap, session |-> EmptyMap,
           chat |-> <<>>, active |-> FALSE]

IdleProc ==
  [pc |-> "idle", h |-> "none", op |-> "none", roomId |-> None, password |-> NoPw,
   displayName |-> NoName, message |-> None, roomData |-> EmptyMap, n |-> 0, t |-> 0,
   backend |-> None, ret |-> NoRet, pre |-> NoSnap, micro |-> FALSE, emitted |-> {},
   entered |-> FALSE, seen |-> {}, again |-> FALSE, autoCreated |-> FALSE,
   orphaned |-> FALSE]

\* transcribing: transcriptionSessions holds a session of the socket
NewSocket ==
  [connected |-> TRUE, currentRoomId |-> None, displayName |-> NoName, rooms |-> {},
   transcribing |-> FALSE]

(***************************************************************************)
(* Control of a store call.  q is the record of the calling socket.         *)
(***************************************************************************)
\* the socket is inside a store call that awaits Redis
InCall(q) == q.pc \notin {"idle", "ret"}

\* enter store operation op on the backend isRedisAvailable() selects; seen
\* collects the store calls of other sockets in progress during this one
Enter(q, socketId, op, roomId) ==
  [q EXCEPT !.op = op, !.roomId = roomId, !.backend = Active, !.ret = NoRet,
            !.pre = Snap(Active, roomId, socketId), !.roomData = EmptyMap, !.n = 0,
            !.entered = TRUE,
            !.seen = {proc[o].op : o \in {x \in Members \ {socketId} : InCall(proc[x])}}]

\* the call returns val: to the caller of a direct call, or to the awaiting handler
\* (sync: the promise is already resolved, the handler goes on in a microtask)
Done(q, val, sync) ==
  LET r == [val EXCEPT !.kind = q.op, !.fresh = TRUE]
  IN  IF q.h = "none"
      THEN [q EXCEPT !.pc = "idle", !.ret = r, !.roomData = EmptyMap, !.n = 0, !.t = 0]
      ELSE [q EXCEPT !.pc = "ret", !.ret = r, !.micro = sync, !.roomData = EmptyMap,
                     !.n = 0, !.t = 0]

\* the call awaits the Redis command issued at label
Goto(q, label) == [q EXCEPT !.pc = label]

\* socket p goes on as q.  What the finished calls of the other sockets returned is
\* kept until the next call starts.
Set(p, q) ==
  proc' = [o \in Members |->
             IF o = p THEN [q EXCEPT !.entered = FALSE]
             ELSE IF proc[p].pc = "idle" /\ proc[o].pc = "idle" THEN IdleProc
                  ELSE IF q.entered /\ InCall(proc[o])
                       THEN [proc[o] EXCEPT !.seen = @ \cup {q.op}]
                       ELSE proc[o]]

AtPc(p, label) == proc[p].pc = label /\ redisAvailable

(***************************************************************************)
(* createRoom                                                               *)
(***************************************************************************)
\* the roomData object createRoom builds
NewRoomData(password, startTime) ==
  [password |-> OrEmpty(password), hasPassword |-> FlagOf(password),
   startTime |-> NumToString(startTime)]

CreateRoomFail == [NoRet EXCEPT !.error = "Room already exists"]

CreateRoomOk(password, startTime) ==
  [NoRet EXCEPT !.success = TRUE, !.hasPassword = Truthy(password), !.startTime = startTime]

\* the call up to its first await: the whole memory path, or redis.exists
CreateRoom(p, q0, roomId, password) ==
  LET q == [Enter(q0, p, "createRoom", roomId) EXCEPT
              !.roomData = NewRoomData(password, now), !.t = now,
              !.password = password]
  IN  IF ~redisAvailable
      THEN IF Has(memoryStore.rooms, roomId)
           THEN /\ Set(p, Done(q, CreateRoomFail, TRUE))
                /\ UNCHANGED <<redis, memoryStore>>
           ELSE /\ memoryStore' = [memoryStore EXCEPT !.rooms = Put(@, roomId, q.roomData)]
                /\ Set(p, Done(q, CreateRoomOk(password, now), TRUE))
                /\ UNCHANGED redis
      ELSE /\ IF Exists(redis, KeyRoom(roomId))
              THEN Set(p, Done(q, CreateRoomFail, FALSE))
              ELSE Set(p, Goto(q, "createRoom:hset"))
           /\ UNCHANGED <<redis, memoryStore>>

CreateRoomHSet(p) ==
  /\ AtPc(p, "createRoom:hset")
  /\ redis' = HSet(redis, KeyRoom(proc[p].roomId), proc[p].roomData)
  /\ Set(p, Goto(proc[p], "createRoom:expire"))
  /\ UNCHANGED memoryStore

CreateRoomExpire(p) ==
  /\ AtPc(p, "createRoom:expire")
  /\ redis' = Expire(redis, KeyRoom(proc[p].roomId), ROOM_TTL)
  /\ Set(p, Goto(proc[p], "createRoom:sadd"))
  /\ UNCHANGED memoryStore

CreateRoomSAdd(p) ==
  /\ AtPc(p, "createRoom:sadd")
  /\ redis' = SAdd(redis, KeyActiveRooms, proc[p].roomId)
  /\ Set(p, Done(proc[p], CreateRoomOk(proc[p].password, proc[p].t), FALSE))
  /\ UNCHANGED memoryStore

(***************************************************************************)
(* checkRoom                                                                *)
(***************************************************************************)
\* variant: the recovered record asks for a password
RecoveredLocked(startTime) ==
  [password |-> "", hasPassword |-> "1", startTime |-> NumToString(startTime),
   recovered |-> "true"]

\* the record auto-recovery writes
RecoveredRoomData(startTime) ==
  [password |-> "", hasPassword |-> "0", startTime |-> NumToString(startTime),
   recovered |-> "true"]

CheckRoomResult(roomData, userCount) ==
  [NoRet EXCEPT !.exists = TRUE, !.hasPassword = (roomData.hasPassword = "1"),
                !.userCount = userCount, !.startTime = ParseInt(roomData.startTime)]

\* !roomData || Object.keys(roomData).length === 0
IsEmptyHash(h) == Size(h) = 0

CheckRoom(p, q0, roomId) ==
  LET q == Enter(q0, p, "checkRoom", roomId)
  IN  /\ UNCHANGED <<redis, memoryStore>>
      /\ IF ~redisAvailable
         THEN IF ~Has(memoryStore.rooms, roomId)
              THEN Set(p, Done(q, NoRet, TRUE))
              ELSE Set(p, Done(q, CheckRoomResult(memoryStore.rooms[roomId],
                                                  Size(MembersOn("memory", roomId))), TRUE))
         ELSE LET roomData == HGetAll(redis, KeyRoom(roomId))
              IN  IF IsEmptyHash(roomData)
                  THEN Set(p, Goto(q, "checkRoom:hlen"))
                  ELSE Set(p, Goto([q EXCEPT !.roomData = roomData], "checkRoom:count"))

CheckRoomHLen(p) ==
  /\ AtPc(p, "checkRoom:hlen")
  /\ LET memberCount == HLen(redis, KeyRoomMembers(proc[p].roomId))
     IN  IF memberCount > 0
         THEN Set(p, Goto([proc[p] EXCEPT !.n = memberCount], "checkRoom:recover"))
         ELSE Set(p, Done(proc[p], NoRet, FALSE))
  /\ UNCHANGED <<redis, memoryStore>>

\* Date.now() is read when the hset is issued
CheckRoomRecover(p) ==
  /\ AtPc(p, "checkRoom:recover")
  /\ redis' = HSet(redis, KeyRoom(proc[p].roomId), RecoveredRoomData(now))
  /\ Set(p, Goto([proc[p] EXCEPT !.t = now], "checkRoom:expire"))
  /\ UNCHANGED memoryStore

CheckRoomExpire(p) ==
  /\ AtPc(p, "checkRoom:expire")
  /\ redis' = Expire(redis, KeyRoom(proc[p].roomId), ROOM_TTL)
  /\ Set(p, Goto(proc[p], "checkRoom:sadd"))
  /\ UNCHANGED memoryStore

CheckRoomSAdd(p) ==
  /\ AtPc(p, "checkRoom:sadd")
  /\ redis' = SAdd(redis, KeyActiveRooms, proc[p].roomId)
  /\ Set(p, Done(proc[p],
                 [NoRet EXCEPT !.exists = TRUE, !.hasPassword = FALSE,
                               !.userCount = proc[p].n,
                               !.startTime = proc[p].t, !.recovering = TRUE], FALSE))
  /\ UNCHANGED memoryStore

CheckRoomCount(p) ==
  /\ AtPc(p, "checkRoom:count")
  /\ Set(p, Done(proc[p], CheckRoomResult(proc[p].roomData,
                                          HLen(redis, KeyRoomMembers(proc[p].roomId))), FALSE))
  /\ UNCHANGED <<redis, memoryStore>>

(***************************************************************************)
(* joinRoom                                                                 *)
(***************************************************************************)
CurrentUser(socketId, displayName) ==
  [id |-> socketId, displayName |-> UserDisplayName(socketId, displayName)]

\* the session record joinRoom stores (joinedAt is never read)
SessionOf(roomId, socketId, displayName) ==
  [roomId |-> roomId, displayName |-> UserDisplayName(socketId, displayName)]

\* variant: no password is ever rejected
NeverRejected(roomData, password) == FALSE

\* roomData.hasPassword === '1' && roomData.password !== password
PasswordRejected(roomData, password) ==
  roomData.hasPassword = "1" /\ roomData.password /= password

\* a rejection that does not ask for the password
InvalidPasswordSilent == [NoRet EXCEPT !.error = "Invalid password"]

InvalidPassword == [NoRet EXCEPT !.error = "Invalid password", !.requiresPassword = TRUE]

RoomDoesNotExist == [NoRet EXCEPT !.error = "Room does not exist"]

JoinRoomOk(users, roomData) ==
  [NoRet EXCEPT !.success = TRUE, !.users = users, !.startTime = ParseInt(roomData.startTime)]

\* variant: a member that is already in the room keeps its entry
MemoryKeepMember(members, roomId, user) ==
  IF Has(members, roomId) /\ Has(members[roomId], user.id) THEN members
  ELSE Put(members, roomId, Put(IF Has(members, roomId) THEN members[roomId] ELSE EmptyMap,
                                user.id, user))

\* members.set(socketId, currentUser) on the Map of a room, created when missing
MemoryAddMember(members, roomId, user) ==
  Put(members, roomId, Put(IF Has(members, roomId) THEN members[roomId] ELSE EmptyMap,
                           user.id, user))

\* variant: the membership hash is written as a whole, holding the joiner alone
RedisSetMembers(D, roomId, user) ==
  [D EXCEPT !.data = Put(D.data, KeyRoomMembers(roomId),
                         Put(EmptyMap, user.id, JsonStringify(user)))]

\* redis.hset(membersKey, socketId, userData)
RedisAddMember(D, roomId, user) ==
  HSetField(D, KeyRoomMembers(roomId), user.id, JsonStringify(user))

JoinRoom(p, q0, roomId, password, displayName) ==
  LET q == [Enter(q0, p, "joinRoom", roomId) EXCEPT
              !.password = password, !.displayName = displayName]
      user == CurrentUser(p, displayName)
  IN  IF ~redisAvailable
      THEN LET found == Has(memoryStore.rooms, roomId)
               roomData == IF found THEN memoryStore.rooms[roomId]
                           ELSE NewRoomData(password, now)
               rooms1 == Put(memoryStore.rooms, roomId, roomData)
               members1 == MemoryAddMember(memoryStore.members, roomId, user)
           IN  /\ UNCHANGED redis
               /\ IF PasswordRejected(roomData, password)
                  THEN /\ memoryStore' = [memoryStore EXCEPT !.rooms = rooms1]
                       /\ Set(p, Done(q, InvalidPassword, TRUE))
                  ELSE /\ memoryStore' =
                            [memoryStore EXCEPT
                               !.rooms = rooms1, !.members = members1,
                               !.users = Put(@, p, SessionOf(roomId, p, displayName))]
                       /\ Set(p, Done(q, JoinRoomOk(Values(members1[roomId]), roomData), TRUE))
      ELSE LET roomData == HGetAll(redis, KeyRoom(roomId))
           IN  /\ UNCHANGED <<redis, memoryStore>>
               /\ IF IsEmptyHash(roomData)
                  THEN Set(p, Goto(q, "joinRoom:hlen"))
                  ELSE IF PasswordRejected(roomData, password)
                       THEN Set(p, Done(q, InvalidPassword, FALSE))
                       ELSE Set(p, Goto([q EXCEPT !.roomData = roomData], "joinRoom:member"))

JoinRoomHLen(p) ==
  /\ AtPc(p, "joinRoom:hlen")
  /\ IF HLen(redis, KeyRoomMembers(proc[p].roomId)) > 0
     THEN Set(p, Goto(proc[p], "joinRoom:recover"))
     ELSE Set(p, Done(proc[p], RoomDoesNotExist, FALSE))
  /\ UNCHANGED <<redis, memoryStore>>

JoinRoomRecover(p) ==
  /\ AtPc(p, "joinRoom:recover")
  /\ redis' = HSet(redis, KeyRoom(proc[p].roomId), RecoveredRoomData(now))
  /\ Set(p, Goto([proc[p] EXCEPT !.roomData = RecoveredRoomData(now)], "joinRoom:expire"))
  /\ UNCHANGED memoryStore

JoinRoomExpire(p) ==
  /\ AtPc(p, "joinRoom:expire")
  /\ redis' = Expire(redis, KeyRoom(proc[p].roomId), ROOM_TTL)
  /\ Set(p, Goto(proc[p], "joinRoom:sadd"))
  /\ UNCHANGED memoryStore

\* after the sadd the password gate runs on the recovered roomData
JoinRoomSAdd(p) ==
  /\ AtPc(p, "joinRoom:sadd")
  /\ redis' = SAdd(redis, KeyActiveRooms, proc[p].roomId)
  /\ IF PasswordRejected(proc[p].roomData, proc[p].password)
     THEN Set(p, Done(proc[p], InvalidPassword, FALSE))
     ELSE Set(p, Goto(proc[p], "joinRoom:member"))
  /\ UNCHANGED memoryStore

JoinRoomMember(p) ==
  /\ AtPc(p, "joinRoom:member")
  /\ redis' = RedisAddMember(redis, proc[p].roomId, CurrentUser(p, proc[p].displayName))
  /\ Set(p, Goto(proc[p], "joinRoom:expireMembers"))
  /\ UNCHANGED memoryStore

JoinRoomExpireMembers(p) ==
  /\ AtPc(p, "joinRoom:expireMembers")
  /\ redis' = Expire(redis, KeyRoomMembers(proc[p].roomId), ROOM_TTL)
  /\ Set(p, Goto(proc[p], "joinRoom:user"))
  /\ UNCHANGED memoryStore

JoinRoomUser(p) ==
  /\ AtPc(p, "joinRoom:user")
  /\ redis' = HSet(redis, KeyUser(p), SessionOf(proc[p].roomId, p, proc[p].displayName))
  /\ Set(p, Goto(proc[p], "joinRoom:expireUser"))
  /\ UNCHANGED memoryStore

JoinRoomExpireUser(p) ==
  /\ AtPc(p, "joinRoom:expireUser")
  /\ redis' = Expire(redis, KeyUser(p), ROOM_TTL)
  /\ Set(p, Goto(proc[p], "joinRoom:users"))
  /\ UNCHANGED memoryStore

JoinRoomUsers(p) ==
  /\ AtPc(p, "joinRoom:users")
  /\ Set(p, Done(proc[p], JoinRoomOk(Values(MembersOn("redis", proc[p].roomId)),
                                     proc[p].roomData), FALSE))
  /\ UNCHANGED <<redis, memoryStore>>

(***************************************************************************)
(* leaveRoom                                                                *)
(***************************************************************************)
\* variant: leaveRoom returns an empty list whoever remains
LeaveRoomNoUsers(users, emptied) == [NoRet EXCEPT !.emptied = emptied]

\* the remaining users leaveRoom returns
LeaveRoomResult(users, emptied) == [NoRet EXCEPT !.users = users, !.emptied = emptied]

\* variant: the member map of an emptied room is kept, empty
MemoryLeaveKeepsEmpty(M, roomId, socketId) ==
  LET found == Has(M.members, roomId)
      left == IF found THEN Drop(M.members[roomId], socketId) ELSE EmptyMap
      M1 == IF ~found THEN M
            ELSE [M EXCEPT !.members = Put(@, roomId, left)]
  IN  [M1 EXCEPT !.users = Drop(@, socketId)]

\* variant: the cleanup of an emptied room leaves its chat log behind
MemoryLeaveKeepsChat(M, roomId, socketId) ==
  LET found == Has(M.members, roomId)
      left == IF found THEN Drop(M.members[roomId], socketId) ELSE EmptyMap
      M1 == IF ~found THEN M
            ELSE IF Size(left) = 0
                 THEN [M EXCEPT !.rooms = Drop(@, roomId), !.members = Drop(@, roomId)]
                 ELSE [M EXCEPT !.members = Put(@, roomId, left)]
  IN  [M1 EXCEPT !.users = Drop(@, socketId)]

\* the memory path: members.delete(socketId) and the cleanup of an emptied room
MemoryLeave(M, roomId, socketId) ==
  LET found == Has(M.members, roomId)
      left == IF found THEN Drop(M.members[roomId], socketId) ELSE EmptyMap
      M1 == IF ~found THEN M
            ELSE IF Size(left) = 0
                 THEN [M EXCEPT !.rooms = Drop(@, roomId), !.members = Drop(@, roomId),
                                !.chat = Drop(@, roomId)]
                 ELSE [M EXCEPT !.members = Put(@, roomId, left)]
  IN  [M1 EXCEPT !.users = Drop(@, socketId)]

LeaveRoom(p, q0, roomId) ==
  LET q == Enter(q0, p, "leaveRoom", roomId)
  IN  IF ~redisAvailable
      THEN LET found == Has(memoryStore.members, roomId)
               left == IF found THEN Drop(memoryStore.members[roomId], p) ELSE EmptyMap
           IN  /\ memoryStore' = MemoryLeave(memoryStore, roomId, p)
               /\ Set(p, Done(q, LeaveRoomResult(Values(left), found /\ Size(left) = 0), TRUE))
               /\ UNCHANGED redis
      ELSE /\ redis' = HDel(redis, KeyRoomMembers(roomId), p)
           /\ Set(p, Goto(q, "leaveRoom:delUser"))
           /\ UNCHANGED memoryStore

\* variant: the Redis path deletes the session held in memory as well
LeaveRoomDelUserBoth(p) ==
  /\ AtPc(p, "leaveRoom:delUser")
  /\ redis' = Del(redis, KeyUser(p))
  /\ Set(p, Goto(proc[p], "leaveRoom:hlen"))
  /\ memoryStore' = [memoryStore EXCEPT !.users = Drop(@, p)]

LeaveRoomDelUser(p) ==
  /\ AtPc(p, "leaveRoom:delUser")
  /\ redis' = Del(redis, KeyUser(p))
  /\ Set(p, Goto(proc[p], "leaveRoom:hlen"))
  /\ UNCHANGED memoryStore

LeaveRoomHLen(p) ==
  /\ AtPc(p, "leaveRoom:hlen")
  /\ IF HLen(redis, KeyRoomMembers(proc[p].roomId)) = 0
     THEN Set(p, Goto(proc[p], "leaveRoom:delRoom"))
     ELSE Set(p, Goto(proc[p], "leaveRoom:users"))
  /\ UNCHANGED <<redis, memoryStore>>

LeaveRoomDelRoom(p) ==
  /\ AtPc(p, "leaveRoom:delRoom")
  /\ redis' = Del(redis, KeyRoom(proc[p].roomId))
  /\ Set(p, Goto(proc[p], "leaveRoom:delMembers"))
  /\ UNCHANGED memoryStore

LeaveRoomDelMembers(p) ==
  /\ AtPc(p, "leaveRoom:delMembers")
  /\ redis' = Del(redis, KeyRoomMembers(proc[p].roomId))
  /\ Set(p, Goto(proc[p], "leaveRoom:delChat"))
  /\ UNCHANGED memoryStore

LeaveRoomDelChat(p) ==
  /\ AtPc(p, "leaveRoom:delChat")
  /\ redis' = Del(redis, KeyRoomChat(proc[p].roomId))
  /\ Set(p, Goto(proc[p], "leaveRoom:srem"))
  /\ UNCHANGED memoryStore

LeaveRoomSRem(p) ==
  /\ AtPc(p, "leaveRoom:srem")
  /\ redis' = SRem(redis, KeyActiveRooms, proc[p].roomId)
  /\ Set(p, Done(proc[p], LeaveRoomResult({}, TRUE), FALSE))
  /\ UNCHANGED memoryStore

LeaveRoomUsers(p) ==
  /\ AtPc(p, "leaveRoom:users")
  /\ Set(p, Done(proc[p], LeaveRoomResult(Values(MembersOn("redis", proc[p].roomId)), FALSE),
                 FALSE))
  /\ UNCHANGED <<redis, memoryStore>>

(***************************************************************************)
(* The read operations and the chat log.                                    *)
(***************************************************************************)
GetRoomUsers(p, q0, roomId) ==
  LET q == Enter(q0, p, "getRoomUsers", roomId)
  IN  /\ Set(p, Done(q, [NoRet EXCEPT !.users = Values(MembersOn(Active, roomId))],
                     ~redisAvailable))
      /\ UNCHANGED <<redis, memoryStore>>

\* members.get(socketId) || null, JSON.parse(hget) or null
GetUser(p, q0, roomId) ==
  LET q == Enter(q0, p, "getUser", roomId)
      ms == MembersOn(Active, roomId)
  IN  /\ Set(p, Done(q, [NoRet EXCEPT !.exists = Has(ms, p),
                                      !.value = IF Has(ms, p) THEN ms[p].displayName
                                                ELSE NoName],
                     ~redisAvailable))
      /\ UNCHANGED <<redis, memoryStore>>

\* the session of socketId or null (exists = FALSE)
SessionResult(session) ==
  [NoRet EXCEPT !.exists = ~IsEmptyHash(session),
                !.value = IF IsEmptyHash(session) THEN None ELSE session.roomId]

\* the memory path, or redis.hgetall(KEYS.user(socketId)) issued
GetUserSession(p, q0) ==
  LET q == Enter(q0, p, "getUserSession", q0.roomId)
  IN  /\ IF ~redisAvailable
         THEN Set(p, Done(q, SessionResult(SessionOn("memory", p)), TRUE))
         ELSE Set(p, Goto(q, "getUserSession:hgetall"))
      /\ UNCHANGED <<redis, memoryStore>>

GetUserSessionHGetAll(p) ==
  /\ AtPc(p, "getUserSession:hgetall")
  /\ Set(p, Done(proc[p], SessionResult(SessionOn("redis", p)), FALSE))
  /\ UNCHANGED <<redis, memoryStore>>

RoomExists(p, q0, roomId) ==
  LET q == Enter(q0, p, "roomExists", roomId)
  IN  /\ Set(p, Done(q, [NoRet EXCEPT !.exists =
                           IF redisAvailable THEN Exists(redis, KeyRoom(roomId))
                           ELSE Has(memoryStore.rooms, roomId)],
                     ~redisAvailable))
      /\ UNCHANGED <<redis, memoryStore>>

\* the chat log keeps the most recent CHAT_KEEP messages
CHAT_KEEP == 100
\* getChatHistory's default limit
DEFAULT_LIMIT == 50

\* chatHistory.unshift(message); if (chatHistory.length > 100) chatHistory.pop()
MemoryAppend(log, message) ==
  LET l == <<message>> \o log
  IN  IF Len(l) > CHAT_KEEP THEN SubSeq(l, 1, Len(l) - 1) ELSE l

\* JSON.stringify / JSON.parse of a chat message
JsonStringifyMessage(m) == <<m.from, m.fromName, m.message, m.time>>
JsonParseMessage(s) == [from |-> s[1], fromName |-> s[2], message |-> s[3], time |-> s[4]]

ParseAll(l) == [i \in 1..Len(l) |-> JsonParseMessage(l[i])]

SaveChatMessage(p, q0, roomId, message) ==
  LET q == [Enter(q0, p, "saveChatMessage", roomId) EXCEPT !.message = message]
  IN  IF ~redisAvailable
      THEN /\ memoryStore' = [memoryStore EXCEPT
                                !.chat = Put(@, roomId, MemoryAppend(ChatOn("memory", roomId),
                                                                     message))]
           /\ Set(p, Done(q, NoRet, TRUE))
           /\ UNCHANGED redis
      ELSE /\ redis' = LPush(redis, KeyRoomChat(roomId), JsonStringifyMessage(message))
           /\ Set(p, Goto(q, "saveChatMessage:ltrim"))
           /\ UNCHANGED memoryStore

SaveChatMessageLTrim(p) ==
  /\ AtPc(p, "saveChatMessage:ltrim")
  /\ redis' = LTrim(redis, KeyRoomChat(proc[p].roomId), CHAT_KEEP - 1)
  /\ Set(p, Goto(proc[p], "saveChatMessage:expire"))
  /\ UNCHANGED memoryStore

SaveChatMessageExpire(p) ==
  /\ AtPc(p, "saveChatMessage:expire")
  /\ redis' = Expire(redis, KeyRoomChat(proc[p].roomId), ROOM_TTL)
  /\ Set(p, Done(proc[p], NoRet, FALSE))
  /\ UNCHANGED memoryStore

\* chatHistory.slice(0, limit).reverse()
MemoryHistory(log, limit) ==
  LET e == IF limit < 0 THEN Len(log) + limit ELSE limit
  IN  Reverse(SubSeq(log, 1, IF Len(log) < e THEN Len(log) ELSE e))

\* lrange(chatKey, 0, limit - 1), parsed and reversed
RedisHistory(D, roomId, limit) == Reverse(ParseAll(LRange(D, KeyRoomChat(roomId), limit - 1)))

\* n keeps the limit of the call
GetChatHistory(p, q0, roomId, limit) ==
  LET q == Enter(q0, p, "getChatHistory", roomId)
  IN  /\ Set(p, [Done(q, [NoRet EXCEPT !.value =
                            IF redisAvailable THEN RedisHistory(redis, roomId, limit)
                            ELSE MemoryHistory(ChatOn("memory", roomId), limit)],
                      ~redisAvailable) EXCEPT !.n = limit])
      /\ UNCHANGED <<redis, memoryStore>>

(***************************************************************************)
(* Scheduling.  A call starts when the socket is idle.  While a handler     *)
(* holds an already resolved promise (micro) its continuation is a          *)
(* microtask, which runs before any other callback.                         *)
(***************************************************************************)
Quiet == \A p \in Members : proc[p].pc = "idle"

NoMicrotaskBut(p) == \A o \in Members \ {p} : ~proc[o].micro

CanStart(p) ==
  /\ proc[p].pc = "idle"
  /\ NoMicrotaskBut(p)

\* the record of a socket that starts a direct store call
Direct(p) == IdleProc

\* the record of a socket whose handler name starts
Handler(p, name, roomId, password, displayName) ==
  [IdleProc EXCEPT !.h = name, !.roomId = roomId, !.password = password,
                   !.displayName = displayName]

\* the awaited store call op of handler name has returned
Resumes(p, name, op) ==
  /\ proc[p].pc = "ret"
  /\ proc[p].h = name
  /\ proc[p].op = op
  /\ NoMicrotaskBut(p)

\* the handler goes on to its next store call
Resume(p) == [proc[p] EXCEPT !.micro = FALSE]

\* the handler ends having emitted events
Finish(p, events) ==
  Set(p, [proc[p] EXCEPT !.pc = "idle", !.micro = FALSE, !.message = None,
                         !.ret = [@ EXCEPT !.fresh = FALSE],
                         !.emitted = proc[p].emitted \cup events])

\* an emitted event: its name, the socket or room it goes to, and of its payload
\* success (ok), error and requiresPassword
EmitResult(ev, to, ok, error, requiresPassword) ==
  [ev |-> ev, to |-> to, ok |-> ok, error |-> error, requiresPassword |-> requiresPassword]

Emit(ev, to, ok) == EmitResult(ev, to, ok, "", FALSE)

(***************************************************************************)
(* Socket handlers.                                                         *)
(***************************************************************************)
\* socket.on("create-room")
CreateRoomIntent(p, roomId, password) ==
  /\ CanStart(p) /\ socket[p].connected
  /\ CreateRoom(p, Handler(p, "create-room", roomId, password, NoName), roomId, password)
  /\ UNCHANGED socket

CreateRoomReturn(p) ==
  /\ Resumes(p, "create-room", "createRoom")
  /\ Finish(p, {IF proc[p].ret.threw
                THEN EmitResult("create-room-error", p, FALSE, "Failed to create room", FALSE)
                ELSE IF proc[p].ret.success
                     THEN Emit("room-created", p, TRUE)
                     ELSE EmitResult("create-room-error", p, FALSE, proc[p].ret.error, FALSE)})
  /\ UNCHANGED <<redis, memoryStore, socket>>

\* socket.on("check-room")
CheckRoomIntent(p, roomId) ==
  /\ CanStart(p) /\ socket[p].connected
  /\ CheckRoom(p, Handler(p, "check-room", roomId, NoPw, NoName), roomId)
  /\ UNCHANGED socket

CheckRoomReturn(p) ==
  /\ Resumes(p, "check-room", "checkRoom")
  /\ Finish(p, {IF proc[p].ret.threw
                THEN EmitResult("join-result", p, FALSE, "Failed to check room", FALSE)
                ELSE IF ~proc[p].ret.exists
                     THEN EmitResult("join-result", p, FALSE, "Room does not exist", FALSE)
                     ELSE IF proc[p].ret.hasPassword
                          THEN EmitResult("join-result", p, FALSE, "", TRUE)
                          ELSE Emit("join-result", p, TRUE)})
  /\ UNCHANGED <<redis, memoryStore, socket>>

\* socket.on("join-room"): roomExists, then createRoom when the room is missing
JoinRoomIntent(p, roomId, password, displayName) ==
  /\ CanStart(p) /\ socket[p].connected
  /\ RoomExists(p, Handler(p, "join-room", roomId, password, displayName), roomId)
  /\ UNCHANGED socket

\* the failure of joinRoom passed on, or the catch block
JoinRoomFailed(p) ==
  /\ Finish(p, {IF proc[p].ret.threw
                THEN EmitResult("join-result", p, FALSE, "Failed to join room", FALSE)
                ELSE EmitResult("join-result", p, FALSE, proc[p].ret.error,
                                proc[p].ret.requiresPassword)})
  /\ UNCHANGED <<redis, memoryStore, socket>>

JoinRoomAfterExists(p) ==
  /\ Resumes(p, "join-room", "roomExists")
  /\ IF proc[p].ret.threw THEN JoinRoomFailed(p)
     ELSE /\ IF ~proc[p].ret.exists
             THEN CreateRoom(p, [Resume(p) EXCEPT
                                   !.autoCreated = TRUE,
                                   !.orphaned = MembersOn(Active, proc[p].roomId) /= EmptyMap],
                             proc[p].roomId, proc[p].password)
             ELSE JoinRoom(p, Resume(p), proc[p].roomId, proc[p].password,
                           proc[p].displayName)
          /\ UNCHANGED socket

JoinRoomAfterCreate(p) ==
  /\ Resumes(p, "join-room", "createRoom")
  /\ IF proc[p].ret.threw THEN JoinRoomFailed(p)
     ELSE /\ JoinRoom(p, Resume(p), proc[p].roomId, proc[p].password, proc[p].displayName)
          /\ UNCHANGED socket

\* on success: socket.join, the backup fields, then getChatHistory(roomId)
JoinRoomAfterJoin(p) ==
  /\ Resumes(p, "join-room", "joinRoom")
  /\ IF proc[p].ret.threw \/ ~proc[p].ret.success THEN JoinRoomFailed(p)
     ELSE /\ socket' = [socket EXCEPT
                          ![p].rooms = @ \cup {proc[p].roomId},
                          ![p].currentRoomId = proc[p].roomId,
                          ![p].displayName = UserDisplayName(p, proc[p].displayName)]
          /\ GetChatHistory(p, Resume(p), proc[p].roomId, DEFAULT_LIMIT)

JoinRoomAfterHistory(p) ==
  /\ Resumes(p, "join-room", "getChatHistory")
  /\ IF proc[p].ret.threw THEN JoinRoomFailed(p)
     ELSE /\ Finish(p, {Emit("join-result", p, TRUE), Emit("room-users", p, TRUE),
                        Emit("user-joined", proc[p].roomId, TRUE)}
                       \cup (IF Len(proc[p].ret.value) > 0
                             THEN {Emit("chat-history", p, TRUE)} ELSE {}))
          /\ UNCHANGED <<redis, memoryStore, socket>>

\* socket.on("chat"): getUser, then saveChatMessage
ChatIntent(p, roomId, text) ==
  /\ CanStart(p) /\ socket[p].connected
  /\ GetUser(p, [Handler(p, "chat", roomId, NoPw, NoName) EXCEPT !.message = text], roomId)
  /\ UNCHANGED socket

ChatAfterUser(p) ==
  /\ Resumes(p, "chat", "getUser")
  /\ IF proc[p].ret.threw
     THEN Finish(p, {}) /\ UNCHANGED <<redis, memoryStore>>
     ELSE SaveChatMessage(p, Resume(p), proc[p].roomId,
                          [from |-> p, fromName |-> proc[p].ret.value,
                           message |-> proc[p].message, time |-> now])
  /\ UNCHANGED socket

ChatAfterSave(p) ==
  /\ Resumes(p, "chat", "saveChatMessage")
  /\ Finish(p, IF proc[p].ret.threw THEN {} ELSE {Emit("chat", proc[p].roomId, TRUE)})
  /\ UNCHANGED <<redis, memoryStore, socket>>

\* socket.on("leave-room")
LeaveRoomIntent(p, roomId) ==
  /\ CanStart(p) /\ socket[p].connected
  /\ LeaveRoom(p, Handler(p, "leave-room", roomId, NoPw, NoName), roomId)
  /\ UNCHANGED socket

LeaveRoomReturn(p) ==
  /\ Resumes(p, "leave-room", "leaveRoom")
  /\ IF proc[p].ret.threw
     THEN Finish(p, {}) /\ UNCHANGED socket
     ELSE /\ socket' = [socket EXCEPT ![p].rooms = @ \ {proc[p].roomId},
                                      ![p].currentRoomId = None,
                                      ![p].displayName = NoName]
          /\ Finish(p, {Emit("user-left", proc[p].roomId, TRUE)})
  /\ UNCHANGED <<redis, memoryStore>>

\* transcriptionSessions: the sockets that hold a transcription session
transcriptionSessions == {p \in Members : socket[p].transcribing}

hasActiveSession(p) == p \in transcriptionSessions

\* socket.on("start-transcription"): startTranscription returns success when the
\* session exists already or transcriber.connect() resolves (connects)
StartTranscriptionIntent(p, roomId) ==
  /\ CanStart(p) /\ socket[p].connected
  /\ \E connects \in BOOLEAN :
       LET ok == hasActiveSession(p) \/ connects
       IN  /\ socket' = [socket EXCEPT ![p].transcribing = ok]
           /\ Set(p, [Handler(p, "start-transcription", roomId, NoPw, NoName) EXCEPT
                        !.emitted = {Emit("transcription-started", p, ok)}
                                      \cup (IF ok
                                            THEN {Emit("user-transcription-status", roomId, TRUE)}
                                            ELSE {})])
  /\ UNCHANGED <<redis, memoryStore>>

\* await stopTranscription(socket.id): the session is deleted whether
\* transcriber.close() resolves (closed) or rejects; the error is logged, not thrown
StopTranscription(q, closed) ==
  [q EXCEPT !.pc = "ret", !.op = "stopTranscription",
            !.ret = [NoRet EXCEPT !.kind = "stopTranscription",
                                  !.error = IF closed THEN "" ELSE "close failed"]]

\* socket.on("disconnect"): the socket has left its rooms; stopTranscription when
\* the socket holds a session, then getUserSession(socket.id)
DisconnectIntent(p) ==
  /\ CanStart(p) /\ socket[p].connected
  /\ socket' = [socket EXCEPT ![p].connected = FALSE, ![p].rooms = {},
                              ![p].transcribing = FALSE]
  /\ IF hasActiveSession(p)
     THEN /\ \E closed \in BOOLEAN :
               Set(p, StopTranscription(Handler(p, "disconnect", None, NoPw, NoName), closed))
          /\ UNCHANGED <<redis, memoryStore>>
     ELSE GetUserSession(p, Handler(p, "disconnect", None, NoPw, NoName))

DisconnectAfterStop(p) ==
  /\ Resumes(p, "disconnect", "stopTranscription")
  /\ GetUserSession(p, Resume(p))
  /\ UNCHANGED socket

\* variant: the catch block only logs the error
DisconnectFailedSilent(p) == Finish(p, {})

\* the catch block: the final fallback on socket.currentRoomId
DisconnectFailed(p) ==
  Finish(p, IF socket[p].currentRoomId /= None
            THEN {Emit("user-left", socket[p].currentRoomId, FALSE)} ELSE {})

\* variant: the room the socket holds comes before the room of the session
RoomToLeaveSocketFirst(p) ==
  IF socket[p].currentRoomId /= None THEN socket[p].currentRoomId
  ELSE IF proc[p].ret.exists /\ proc[p].ret.value /= None THEN proc[p].ret.value
       ELSE None

\* roomId: userSession.roomId, else socket.currentRoomId, else null
RoomToLeave(p) ==
  IF proc[p].ret.exists /\ proc[p].ret.value /= None
  THEN proc[p].ret.value ELSE socket[p].currentRoomId

\* leaveRoom when there is a roomId
DisconnectAfterSession(p) ==
  /\ Resumes(p, "disconnect", "getUserSession")
  /\ LET roomId == RoomToLeave(p)
     IN  IF proc[p].ret.threw
         THEN DisconnectFailed(p) /\ UNCHANGED <<redis, memoryStore>>
         ELSE IF roomId /= None
              THEN LeaveRoom(p, Resume(p), roomId)
              ELSE Finish(p, {}) /\ UNCHANGED <<redis, memoryStore>>
  /\ UNCHANGED socket

DisconnectAfterLeave(p) ==
  /\ Resumes(p, "disconnect", "leaveRoom")
  /\ IF proc[p].ret.threw THEN DisconnectFailed(p)
     ELSE Finish(p, {Emit("user-left", proc[p].roomId, TRUE)})
  /\ UNCHANGED <<redis, memoryStore, socket>>

(***************************************************************************)
(* Direct calls of the exported store operations.                           *)
(***************************************************************************)
CallCreateRoom(p, roomId, password) ==
  CanStart(p) /\ CreateRoom(p, Direct(p), roomId, password)

CallCheckRoom(p, roomId) ==
  CanStart(p) /\ CheckRoom(p, Direct(p), roomId)

CallJoinRoom(p, roomId, password, displayName) ==
  CanStart(p) /\ JoinRoom(p, Direct(p), roomId, password, displayName)

CallLeaveRoom(p, roomId) ==
  CanStart(p) /\ LeaveRoom(p, Direct(p), roomId)

\* the caller repeats the leaveRoom that has just returned to it
CallLeaveRoomAgain(p, roomId) ==
  /\ CanStart(p)
  /\ proc[p].ret.kind = "leaveRoom" /\ ~proc[p].ret.threw /\ proc[p].roomId = roomId
  /\ LeaveRoom(p, [Direct(p) EXCEPT !.again = TRUE], roomId)

CallSaveChatMessage(p, roomId, text) ==
  /\ CanStart(p)
  /\ SaveChatMessage(p, Direct(p), roomId,
                     [from |-> p, fromName |-> NoName, message |-> text, time |-> now])

(***************************************************************************)
(* History variables, kept by every step of socket p.                       *)
(***************************************************************************)
\* ref after a step of p that left p's record as q: a successful joinRoom adds p,
\* a leaveRoom removes p, on the backend the call ran on
RefAfter(p, q) ==
  IF q.ret.fresh /\ ~q.ret.threw
  THEN IF q.ret.kind = "joinRoom" /\ q.ret.success
       THEN [ref EXCEPT ![q.backend][q.roomId] = @ \cup {p}, !["all"][q.roomId] = @ \cup {p}]
       ELSE IF q.ret.kind = "leaveRoom"
            THEN [ref EXCEPT ![q.backend][q.roomId] = @ \ {p}, !["all"][q.roomId] = @ \ {p}]
            ELSE ref
  ELSE ref

History(p) ==
  /\ calls' = IF proc[p].pc = "idle" THEN calls + 1 ELSE calls
  /\ just' = IF proc'[p].pc = "idle" THEN p ELSE None
  /\ ref' = RefAfter(p, proc'[p])

StoreTail(p) == History(p) /\ UNCHANGED <<redisAvailable, now, socket>>

HandlerTail(p) == History(p) /\ UNCHANGED <<redisAvailable, now>>

(***************************************************************************)
(* The environment: the Redis connection and the clock.                     *)
(***************************************************************************)
\* redis.on('connect') / redis.on('ready')
RedisReady ==
  /\ Quiet /\ ~redisAvailable
  /\ redisAvailable' = TRUE
  /\ just' = None
  /\ UNCHANGED <<redis, memoryStore, now, proc, calls, socket, ref>>

\* redis.on('error') / redis.on('close')
RedisClose ==
  /\ Quiet /\ redisAvailable
  /\ redisAvailable' = FALSE
  /\ just' = None
  /\ UNCHANGED <<redis, memoryStore, now, proc, calls, socket, ref>>

\* the connection closes, or is back, while a call or a handler is in progress
RedisCloseInCall ==
  /\ ~Quiet /\ redisAvailable
  /\ redisAvailable' = FALSE
  /\ just' = None
  /\ UNCHANGED <<redis, memoryStore, now, proc, calls, socket, ref>>

RedisReadyInCall ==
  /\ ~Quiet /\ ~redisAvailable
  /\ redisAvailable' = TRUE
  /\ just' = None
  /\ UNCHANGED <<redis, memoryStore, now, proc, calls, socket, ref>>

\* what the caller of a rejected call gets
Thrown == [NoRet EXCEPT !.threw = TRUE]

\* maxRetriesPerRequest: the command a call awaits while the connection is down
\* is rejected, and the call throws
Fault(p) ==
  /\ InCall(proc[p]) /\ ~redisAvailable
  /\ Set(p, Done(proc[p], Thrown, FALSE))
  /\ UNCHANGED <<redis, memoryStore>>

\* one clock period passes: Redis ends the keys whose TTL is over.  A period is
\* long against a call, so it passes between calls; the results returned before it
\* are no longer the latest
Tick ==
  /\ Quiet /\ now < MaxClock
  /\ now' = now + 1
  /\ redis' = ExpireTick(redis)
  /\ proc' = [p \in Members |-> IdleProc]
  /\ ref' = [ref EXCEPT !["redis"] =
                [r \in Rooms |-> IF /\ Exists(redis, KeyRoomMembers(r))
                                    /\ ~Exists(ExpireTick(redis), KeyRoomMembers(r))
                                 THEN {} ELSE @[r]]]
  /\ just' = None
  /\ UNCHANGED <<redisAvailable, memoryStore, calls, socket>>

\* Date.now() moves on while calls are in progress (told apart only by a call
\* that is about to read it)
ClockAdvance ==
  /\ \E p \in Members : proc[p].pc \in {"checkRoom:recover", "joinRoom:recover"}
  /\ now < MaxClock
  /\ now' = now + 1
  /\ just' = None
  /\ UNCHANGED <<redisAvailable, redis, memoryStore, proc, calls, socket, ref>>

Init ==
  /\ redisAvailable = FALSE
  /\ redis = EmptyDb
  /\ memoryStore = [rooms |-> EmptyMap, members |-> EmptyMap, users |-> EmptyMap,
                    chat |-> EmptyMap]
  /\ now = 0
  /\ proc = [p \in Members |-> IdleProc]
  /\ calls = 0
  /\ socket = [p \in Members |-> NewSocket]
  /\ just = None
  /\ ref = [b \in Backends \cup {"all"} |-> [r \in Rooms |-> {}]]

(***************************************************************************)
(* The steps of the calls in progress.                                      *)
(***************************************************************************)
StoreStep(p) ==
  \/ CreateRoomHSet(p) \/ CreateRoomExpire(p) \/ CreateRoomSAdd(p)
  \/ CheckRoomHLen(p) \/ CheckRoomRecover(p) \/ CheckRoomExpire(p)
  \/ CheckRoomSAdd(p) \/ CheckRoomCount(p)
  \/ JoinRoomHLen(p) \/ JoinRoomRecover(p) \/ JoinRoomExpire(p) \/ JoinRoomSAdd(p)
  \/ JoinRoomMember(p) \/ JoinRoomExpireMembers(p) \/ JoinRoomUser(p)
  \/ JoinRoomExpireUser(p) \/ JoinRoomUsers(p)
  \/ LeaveRoomDelUser(p) \/ LeaveRoomHLen(p) \/ LeaveRoomDelRoom(p)
  \/ LeaveRoomDelMembers(p) \/ LeaveRoomDelChat(p) \/ LeaveRoomSRem(p)
  \/ LeaveRoomUsers(p)
  \/ GetUserSessionHGetAll(p)

ChatStep(p) == SaveChatMessageLTrim(p) \/ SaveChatMessageExpire(p)

HandlerStep(p) ==
  \/ CreateRoomReturn(p) \/ CheckRoomReturn(p)
  \/ JoinRoomAfterExists(p) \/ JoinRoomAfterCreate(p) \/ JoinRoomAfterJoin(p)
  \/ JoinRoomAfterHistory(p)
  \/ ChatAfterUser(p) \/ ChatAfterSave(p)
  \/ LeaveRoomReturn(p)
  \/ DisconnectAfterStop(p) \/ DisconnectAfterSession(p) \/ DisconnectAfterLeave(p)

Step(p) ==
  \/ StoreStep(p) /\ NoMicrotaskBut(p) /\ StoreTail(p)
  \/ ChatStep(p) /\ NoMicrotaskBut(p) /\ StoreTail(p)
  \/ HandlerStep(p) /\ HandlerTail(p)

(***************************************************************************)
(* Spec: the sockets send intents; one intent is handled at a time.         *)
(***************************************************************************)
IntentPasswords == {NoPw, "p"}

Intent(p) ==
  \/ \E r \in Rooms, pw \in IntentPasswords : CreateRoomIntent(p, r, pw)
  \/ \E r \in Rooms : CheckRoomIntent(p, r)
  \/ \E r \in Rooms, pw \in IntentPasswords : JoinRoomIntent(p, r, pw, NoName)
  \/ \E r \in Rooms : ChatIntent(p, r, "hi")
  \/ \E r \in Rooms : LeaveRoomIntent(p, r)
  \/ DisconnectIntent(p)

Next ==
  \/ \E p \in Members : Quiet /\ calls < MaxIntents /\ Intent(p) /\ HandlerTail(p)
  \/ \E p \in Members : Step(p)
  \/ RedisReady
  \/ RedisClose
  \/ Tick

Spec == Init /\ [][Next]_vars

(***************************************************************************)
(* SpecStore: the store operations are called directly, one after another.  *)
(***************************************************************************)
StoreCall(p, R, PW) ==
  \/ \E r \in R, pw \in PW : CallCreateRoom(p, r, pw)
  \/ \E r \in R : CallCheckRoom(p, r)
  \/ \E r \in R, pw \in PW : CallJoinRoom(p, r, pw, NoName)
  \/ \E r \in R : CallLeaveRoom(p, r)

StoreRooms == {"r1"}

NextStore ==
  \/ \E p \in Members :
        Quiet /\ calls < MaxCalls /\ StoreCall(p, StoreRooms, Passwords) /\ StoreTail(p)
  \/ \E p \in Members : StoreStep(p) /\ StoreTail(p)
  \/ RedisReady
  \/ RedisClose
  \/ Tick

SpecStore == Init /\ [][NextStore]_vars

(***************************************************************************)
(* SpecRace: the store operations are called directly, while Redis is        *)
(* available, and overlap.                                                  *)
(***************************************************************************)
RaceRooms == {"r1"}
RacePasswords == {NoPw, "p"}

NextRace ==
  \/ \E p \in Members :
        /\ redisAvailable /\ calls < MaxRaceCalls
        /\ StoreCall(p, RaceRooms, RacePasswords) /\ StoreTail(p)
  \/ \E p \in Members : StoreStep(p) /\ StoreTail(p)
  \/ RedisReady
  \/ Tick
  \/ ClockAdvance

SpecRace == Init /\ [][NextRace]_vars

(***************************************************************************)
(* SpecMember: createRoom, joins under either display name, leaves,         *)
(* repeated leaves and chat messages on one room, one call after another.   *)
(***************************************************************************)
MemberRoom == "r1"
MemberNames == {NoName, <<"n">>}

MemberCall(p) ==
  \/ CallCreateRoom(p, MemberRoom, NoPw)
  \/ \E dn \in MemberNames : CallJoinRoom(p, MemberRoom, NoPw, dn)
  \/ CallLeaveRoom(p, MemberRoom)
  \/ CallLeaveRoomAgain(p, MemberRoom)
  \/ CallSaveChatMessage(p, MemberRoom, "hi")

NextMember ==
  \/ \E p \in Members : Quiet /\ calls < MaxMemberCalls /\ MemberCall(p) /\ StoreTail(p)
  \/ \E p \in Members : (StoreStep(p) \/ ChatStep(p)) /\ StoreTail(p)
  \/ RedisReady
  \/ RedisClose

SpecMember == Init /\ [][NextMember]_vars

(***************************************************************************)
(* SpecFail: intents on one room while the Redis connection closes and      *)
(* comes back at any moment; a command awaited while it is down may be      *)
(* rejected.                                                                *)
(***************************************************************************)
FailRoom == "r1"

FailIntent(p) ==
  \/ JoinRoomIntent(p, FailRoom, NoPw, NoName)
  \/ ChatIntent(p, FailRoom, "hi")
  \/ LeaveRoomIntent(p, FailRoom)
  \/ StartTranscriptionIntent(p, FailRoom)
  \/ DisconnectIntent(p)

NextFail ==
  \/ \E p \in Members : Quiet /\ calls < MaxFailIntents /\ FailIntent(p) /\ HandlerTail(p)
  \/ \E p \in Members : Step(p)
  \/ \E p \in Members : Fault(p) /\ NoMicrotaskBut(p) /\ StoreTail(p)
  \/ RedisReady
  \/ RedisClose
  \/ RedisReadyInCall
  \/ RedisCloseInCall

SpecFail == Init /\ [][NextFail]_vars

\* the event loop runs the continuation of a settled await, and every Redis
\* command settles: with its reply, or rejected while the connection is down
Progress(p) == Step(p) \/ (Fault(p) /\ NoMicrotaskBut(p) /\ StoreTail(p))

\* LiveFail: joining, transcribing and disconnecting sockets under the same
\* failures, with progress
TeardownIntent(p) ==
  \/ JoinRoomIntent(p, FailRoom, NoPw, NoName)
  \/ StartTranscriptionIntent(p, FailRoom)
  \/ DisconnectIntent(p)

NextTeardown ==
  \/ \E p \in Members :
        Quiet /\ calls < MaxFailIntents /\ TeardownIntent(p) /\ HandlerTail(p)
  \/ \E p \in Members : StoreStep(p) /\ NoMicrotaskBut(p) /\ StoreTail(p)
  \/ \E p \in Members : HandlerStep(p) /\ HandlerTail(p)
  \/ \E p \in Members : Fault(p) /\ NoMicrotaskBut(p) /\ StoreTail(p)
  \/ RedisReady
  \/ RedisClose
  \/ RedisReadyInCall
  \/ RedisCloseInCall

LiveFail == Init /\ [][NextTeardown]_vars /\ \A p \in Members : WF_vars(Progress(p))

(***************************************************************************)
(* SpecOrder: one socket joins and leaves either room and disconnects,      *)
(* Redis coming and going between its intents.                              *)
(***************************************************************************)
OrderSocket == "a"

OrderIntent(p) ==
  \/ \E r \in Rooms : JoinRoomIntent(p, r, NoPw, NoName)
  \/ \E r \in Rooms : LeaveRoomIntent(p, r)
  \/ DisconnectIntent(p)

NextOrder ==
  \/ Quiet /\ calls < MaxOrderIntents /\ OrderIntent(OrderSocket) /\ HandlerTail(OrderSocket)
  \/ StoreStep(OrderSocket) /\ StoreTail(OrderSocket)
  \/ HandlerStep(OrderSocket) /\ HandlerTail(OrderSocket)
  \/ RedisReady
  \/ RedisClose

SpecOrder == Init /\ [][NextOrder]_vars

(***************************************************************************)
(* SpecChat: one socket appends numbered messages to the chat log of one    *)
(* room, on the backend chosen before the first of them, and reads the log  *)
(* back under several limits.                                               *)
(***************************************************************************)
ChatRoom == "r1"
ChatSender == "a"
ChatLimits == {0, 1, DEFAULT_LIMIT, CHAT_KEEP, CHAT_KEEP + 1}

CallGetChatHistory(p, roomId, limit) ==
  CanStart(p) /\ GetChatHistory(p, Direct(p), roomId, limit)

\* a read: the messages are numbered by the appends alone
ReadTail(p) ==
  /\ just' = p
  /\ UNCHANGED <<redisAvailable, now, calls, socket, ref>>

NextChat ==
  \/ /\ Quiet /\ calls < MaxAppends
     /\ CallSaveChatMessage(ChatSender, ChatRoom, calls + 1)
     /\ StoreTail(ChatSender)
  \/ ChatStep(ChatSender) /\ StoreTail(ChatSender)
  \/ \E limit \in ChatLimits :
        Quiet /\ CallGetChatHistory(ChatSender, ChatRoom, limit) /\ ReadTail(ChatSender)
  \/ calls = 0 /\ RedisReady

SpecChat == Init /\ [][NextChat]_vars

\* ---------------------------------------------------------------------------
\* Rooms without members over time: direct store calls on one room, every call
\* starting early enough for the TTLs it sets to run out within the clock; time
\* passes and a call in progress goes on (each awaited command is answered)

GcRoom == "r1"

NextGc ==
  \/ \E p \in Members :
        /\ Quiet /\ calls < MaxGcCalls /\ now + TtlTicks <= MaxClock
        /\ StoreCall(p, {GcRoom}, {NoPw})
        /\ StoreTail(p)
  \/ \E p \in Members : StoreStep(p) /\ StoreTail(p)
  \/ RedisReady
  \/ RedisClose
  \/ Tick

LiveGc ==
  /\ Init
  /\ [][NextGc]_vars
  /\ WF_vars(Tick)
  /\ \A p \in Members : WF_vars(StoreStep(p) /\ StoreTail(p))

\* ---------------------------------------------------------------------------
\* SpecOrphan: create-room, check-room and join-room intents on one room, one at a time,
\* while the TTLs of its keys run out

OrphanRoom == "r1"

OrphanIntent(p) ==
  \/ CreateRoomIntent(p, OrphanRoom, "p")
  \/ CheckRoomIntent(p, OrphanRoom)
  \/ \E pw \in IntentPasswords : JoinRoomIntent(p, OrphanRoom, pw, NoName)

NextOrphan ==
  \/ \E p \in Members :
        Quiet /\ calls < MaxOrphanIntents /\ OrphanIntent(p) /\ HandlerTail(p)
  \/ \E p \in Members : StoreStep(p) /\ StoreTail(p)
  \/ \E p \in Members : HandlerStep(p) /\ HandlerTail(p)
  \/ RedisReady
  \/ RedisClose
  \/ Tick

SpecOrphan == Init /\ [][NextOrphan]_vars

\* ---------------------------------------------------------------------------
\* SpecLocked: one room that every creation protects with the same password;
\* create-room, check-room, join-room, chat and leave-room intents, one at a
\* time, while the TTLs of its keys run out

LockedRoom == "r1"
LockedPassword == "p"

LockedIntent(p) ==
  \/ CreateRoomIntent(p, LockedRoom, LockedPassword)
  \/ CheckRoomIntent(p, LockedRoom)
  \/ JoinRoomIntent(p, LockedRoom, LockedPassword, NoName)
  \/ ChatIntent(p, LockedRoom, "hi")
  \/ LeaveRoomIntent(p, LockedRoom)

NextLocked ==
  \/ \E p \in Members :
        Quiet /\ calls < MaxLockedIntents /\ LockedIntent(p) /\ HandlerTail(p)
  \/ \E p \in Members : Step(p)
  \/ RedisReady
  \/ RedisClose
  \/ Tick

SpecLocked == Init /\ [][NextLocked]_vars

(***************************************************************************)
(* Properties.  Returned(p, op, r): the latest call of socket p was op on   *)
(* room r and has returned (its result is kept until the next call starts   *)
(* or a clock period passes).                                               *)
(***************************************************************************)
Returned(p, op, r) ==
  /\ proc[p].pc = "idle"
  /\ proc[p].ret.kind = op
  /\ proc[p].roomId = r

\* the session of m on backend b points to room r
SessionPointsTo(b, m, r) ==
  /\ ~IsEmptyHash(SessionOn(b, m))
  /\ SessionOn(b, m).roomId = r

\* C1: joinRoom(r, a) overlaps leaveRoom(r, b) on Redis, b being the only member of
\* r when joinRoom starts; once both have returned and joinRoom returned success,
\* a is a member of r, the record of r exists and the session of a points to r.
C1_JoinLeaveLinearizable ==
  \A a \in Members, b \in Members, r \in Rooms :
    ( /\ a /= b
      /\ Returned(a, "joinRoom", r) /\ proc[a].ret.success
      /\ Returned(b, "leaveRoom", r)
      /\ proc[a].backend = "redis" /\ proc[b].backend = "redis"
      /\ DOMAIN proc[a].pre.members = {b}
      /\ b \in DOMAIN proc[b].pre.members )
    => /\ a \in MemberIds("redis", r)
       /\ ~IsEmptyHash(RoomOn("redis", r))
       /\ SessionPointsTo("redis", a, r)

\* C2: when joinRoom(r, a) and joinRoom(r, b) overlap on one backend, no leaveRoom
\* overlaps either, and both have returned success, the membership of r holds both
\* a and b.
C2_NoJoinLost ==
  \A a \in Members, b \in Members, r \in Rooms :
    ( /\ a /= b
      /\ Returned(a, "joinRoom", r) /\ proc[a].ret.success
      /\ Returned(b, "joinRoom", r) /\ proc[b].ret.success
      /\ proc[a].backend = proc[b].backend
      /\ "leaveRoom" \notin proc[a].seen \cup proc[b].seen )
    => {a, b} \subseteq MemberIds(proc[a].backend, r)

\* two joins of one room have both returned success, each having started before
\* the other had written its member entry, and both members are in the room
C2_Witness ==
  \E a \in Members, b \in Members, r \in Rooms :
    /\ a /= b
    /\ Returned(a, "joinRoom", r) /\ proc[a].ret.success
    /\ Returned(b, "joinRoom", r) /\ proc[b].ret.success
    /\ proc[a].backend = "redis" /\ proc[b].backend = "redis"
    /\ b \notin DOMAIN proc[a].pre.members
    /\ a \notin DOMAIN proc[b].pre.members
    /\ {a, b} \subseteq MemberIds("redis", r)

\* C3: when a leaveRoom(r, m) that removed the last member of r returns (m was a
\* member, none was left, and no createRoom ran meanwhile), the record, the
\* membership and the chat log of r are absent from the backend it ran on.
C3_EmptiedRoomGone ==
  \A p \in Members, r \in Rooms :
    ( /\ just = p
      /\ Returned(p, "leaveRoom", r)
      /\ p \in DOMAIN proc[p].pre.members
      /\ proc[p].ret.emptied
      /\ \A o \in Members \ {p} : proc[o].op /= "createRoom" )
    => /\ IsEmptyHash(RoomOn(proc[p].backend, r))
       /\ MemberIds(proc[p].backend, r) = {}
       /\ ChatOn(proc[p].backend, r) = << >>

\* C4: when no operation is in progress, on each backend m is a member of r exactly
\* when the session of m points to r.
C4_MemberIffSession ==
  Quiet =>
    \A b \in Backends, m \in Members, r \in Rooms :
      m \in MemberIds(b, r) <=> SessionPointsTo(b, m, r)

\* C5: on each backend a member id is in the membership of at most one room.
C5_OneRoomPerMember ==
  \A b \in Backends, m \in Members :
    Cardinality({r \in Rooms : m \in MemberIds(b, r)}) <= 1

\* C6 as stated: when no call is in progress, the membership of r on the active
\* backend is the set of all joins minus leaves, whatever backend each ran on.
C6_FinalMembership ==
  Quiet => \A r \in Rooms : MemberIds(Active, r) = ref["all"][r]

\* C6 amended: when no call is in progress, the membership of r on each backend is
\* the set of the joins minus leaves that ran on that backend (emptied when the
\* TTL ends the Redis membership key).
C6_MembershipPerBackend ==
  Quiet => \A b \in Backends, r \in Rooms : MemberIds(b, r) = ref[b][r]

\* a and b joined r1 and b left it, all in memory; Redis is available now, and
\* holds no member of r1
C6_Witness ==
  /\ Quiet /\ redisAvailable
  /\ \E p \in Members : Returned(p, "leaveRoom", "r1") /\ proc[p].backend = "memory"
  /\ ref["memory"]["r1"] /= {}
  /\ MemberIds("memory", "r1") = ref["memory"]["r1"]
  /\ ref["redis"]["r1"] = {}
  /\ MemberIds("redis", "r1") = {}

NonEmptyString(pw) == pw \in Passwords \ {NoPw, ""}

\* C7: createRoom(r, pw) returns 'Room already exists' and leaves the record of r as
\* it was when a record of r is present on the active backend; otherwise it stores
\* a record of r and returns success, with hasPassword true exactly when pw is a
\* non-empty string.
C7_CreateRoomContract ==
  \A p \in Members, r \in Rooms :
    (just = p /\ Returned(p, "createRoom", r))
    => LET before == proc[p].pre.room
           after == RoomOn(proc[p].backend, r)
           pw == proc[p].password
       IN  IF ~IsEmptyHash(before)
           THEN /\ ~proc[p].ret.success
                /\ proc[p].ret.error = "Room already exists"
                /\ after = before
           ELSE /\ proc[p].ret.success
                /\ ~IsEmptyHash(after)
                /\ after.password = (IF NonEmptyString(pw) THEN pw ELSE "")
                /\ after.hasPassword = "1" <=> NonEmptyString(pw)
                /\ proc[p].ret.hasPassword <=> NonEmptyString(pw)

\* createRoom has just failed on a room that has a record
C7_Witness ==
  \E p \in Members, r \in Rooms :
    /\ just = p /\ Returned(p, "createRoom", r)
    /\ ~IsEmptyHash(proc[p].pre.room)
    /\ proc[p].ret.error = "Room already exists"
    /\ RoomOn(proc[p].backend, r) = proc[p].pre.room

\* C8: checkRoom(r) on a room without a record: with n > 0 members it returns
\* exists=true, hasPassword=false, userCount=n and leaves a password-less record
\* with recovered=true; with no member it returns exists=false and writes nothing.
C8_CheckRoomRecovery ==
  \A p \in Members, r \in Rooms :
    (just = p /\ Returned(p, "checkRoom", r) /\ IsEmptyHash(proc[p].pre.room))
    => LET n == Size(proc[p].pre.members)
           after == RoomOn(proc[p].backend, r)
       IN  IF n > 0
           THEN /\ proc[p].ret.exists
                /\ ~proc[p].ret.hasPassword
                /\ proc[p].ret.userCount = n
                /\ ~IsEmptyHash(after)
                /\ after.hasPassword = "0"
                /\ after.password = ""
                /\ "recovered" \in DOMAIN after
                /\ after.recovered = "true"
           ELSE /\ ~proc[p].ret.exists
                /\ Snap(proc[p].backend, r, p) = proc[p].pre

\* checkRoom has just recovered the record of a room whose record had expired
C8_Witness ==
  \E p \in Members, r \in Rooms :
    /\ just = p /\ Returned(p, "checkRoom", r)
    /\ IsEmptyHash(proc[p].pre.room)
    /\ Size(proc[p].pre.members) > 0
    /\ proc[p].ret.exists
    /\ proc[p].ret.userCount = Size(proc[p].pre.members)
    /\ "recovered" \in DOMAIN RoomOn("redis", r)

\* C9: two checkRoom(r) calls that both found r orphaned report the same startTime,
\* which is the startTime of the recovered record.
C9_RecoveryIdempotent ==
  \A p \in Members, o \in Members, r \in Rooms :
    ( /\ p /= o
      /\ Returned(p, "checkRoom", r) /\ Returned(o, "checkRoom", r)
      /\ IsEmptyHash(proc[p].pre.room) /\ IsEmptyHash(proc[o].pre.room)
      /\ Size(proc[p].pre.members) > 0 /\ Size(proc[o].pre.members) > 0 )
    => /\ proc[p].ret.startTime = proc[o].ret.startTime
       /\ ~IsEmptyHash(RoomOn("redis", r))
       /\ ParseInt(RoomOn("redis", r).startTime) = proc[p].ret.startTime

\* C10: joinRoom(r, m, pw) on a room whose record holds the non-empty password p
\* succeeds exactly when pw = p, and otherwise returns 'Invalid password' with
\* requiresPassword and leaves the membership of r and the session of m as they
\* were; on a room whose record holds no password it succeeds for every pw.
C10_PasswordGate ==
  \A p \in Members, r \in Rooms :
    (just = p /\ Returned(p, "joinRoom", r) /\ ~IsEmptyHash(proc[p].pre.room))
    => LET rec == proc[p].pre.room
           b == proc[p].backend
       IN  /\ proc[p].ret.success <=>
                (rec.hasPassword = "1" => proc[p].password = rec.password)
           /\ proc[p].ret.success => p \in MemberIds(b, r) /\ SessionPointsTo(b, p, r)
           /\ ~proc[p].ret.success =>
                /\ proc[p].ret.error = "Invalid password"
                /\ proc[p].ret.requiresPassword
                /\ MembersOn(b, r) = proc[p].pre.members
                /\ SessionOn(b, p) = proc[p].pre.session

\* joinRoom has just been refused on a room with a password
C10_Witness ==
  \E p \in Members, r \in Rooms :
    /\ just = p /\ Returned(p, "joinRoom", r)
    /\ ~IsEmptyHash(proc[p].pre.room)
    /\ proc[p].pre.room.hasPassword = "1"
    /\ proc[p].password /= proc[p].pre.room.password
    /\ proc[p].ret.error = "Invalid password"
    /\ p \notin MemberIds(proc[p].backend, r)

\* the entry of socket p among the users a call returned
EntriesOf(users, p) == {u \in users : u.id = p}

\* C11: a successful joinRoom(r, m) upserts m: the users it returns are the whole
\* membership of r after the join, with one entry per member id and the entry of m
\* (under the display name of this join) exactly once; the members are those of
\* before the join and m, so a re-join does not change the count, and the entries
\* of the other members are untouched.
C11_JoinUpserts ==
  \A p \in Members :
    (just = p /\ proc[p].ret.kind = "joinRoom" /\ proc[p].ret.success) =>
      LET q == proc[p]
          after == MembersOn(q.backend, q.roomId)
          me == CurrentUser(p, q.displayName)
      IN  /\ EntriesOf(q.ret.users, p) = {me}
          /\ q.ret.users = Values(after)
          /\ Cardinality(q.ret.users) = Cardinality(DOMAIN after)
          /\ DOMAIN after = DOMAIN q.pre.members \cup {p}
          /\ after[p] = me
          /\ \A o \in DOMAIN q.pre.members \ {p} : after[o] = q.pre.members[o]

\* on Redis a member re-joins, under another display name, a room that has a
\* second member
C11_Witness ==
  \E p \in Members :
    /\ just = p /\ proc[p].ret.kind = "joinRoom" /\ proc[p].ret.success
    /\ proc[p].backend = "redis"
    /\ p \in DOMAIN proc[p].pre.members
    /\ proc[p].pre.members[p] /= CurrentUser(p, proc[p].displayName)
    /\ Cardinality(proc[p].ret.users) = 2

C13_LeaveNonMemberNoop ==
  \A p \in Members :
    (just = p /\ proc[p].ret.kind = "leaveRoom" /\ p \notin DOMAIN proc[p].pre.members) =>
      LET q == proc[p]
      IN  /\ RoomOn(q.backend, q.roomId) = q.pre.room
          /\ MembersOn(q.backend, q.roomId) = q.pre.members
          /\ ChatOn(q.backend, q.roomId) = q.pre.chat
          /\ SessionOn(q.backend, p) = q.pre.session

\* the chat log of room r on backend b, newest first, as messages
MessagesOn(b, r) == IF b = "redis" THEN ParseAll(ChatOn(b, r)) ELSE ChatOn(b, r)

\* the limit most recent messages of a log kept newest first, oldest first
RecentOldestFirst(log, limit) ==
  LET n == IF Len(log) < limit THEN Len(log) ELSE limit
  IN  [i \in 1..n |-> log[n + 1 - i]]

\* C14: between calls the chat log of a room holds the most recent messages, at
\* most 100 of them and each once, and getChatHistory(r, limit) returns, for every
\* limit >= 0 and on either backend, the min(limit, stored) most recent messages
\* oldest first.
C14_ChatHistory ==
  LET log == MessagesOn(Active, ChatRoom)
      q == proc[ChatSender]
  IN  /\ Quiet =>
           /\ Len(log) = (IF calls < CHAT_KEEP THEN calls ELSE CHAT_KEEP)
           /\ \A i \in 1..Len(log) : log[i].message = calls + 1 - i
      /\ (just = ChatSender /\ q.ret.kind = "getChatHistory") =>
           q.ret.value = RecentOldestFirst(log, q.n)

\* C16: on the memory backend, when the leaveRoom(r, m) of the last member of r
\* returns, the local maps hold no entry for r (rooms, members, chat) and the
\* users map holds none for m.
C16_MemoryEmptiedClean ==
  \A p \in Members :
    (/\ just = p /\ proc[p].ret.kind = "leaveRoom" /\ proc[p].backend = "memory"
     /\ DOMAIN proc[p].pre.members = {p}) =>
      /\ ~Has(memoryStore.rooms, proc[p].roomId)
      /\ ~Has(memoryStore.members, proc[p].roomId)
      /\ ~Has(memoryStore.chat, proc[p].roomId)
      /\ ~Has(memoryStore.users, p)
      /\ proc[p].ret.users = {}

\* the last member leaves a room of the memory backend that had a record, a
\* session of the member and a chat log, Redis having been unavailable all along
C16_Witness ==
  \E p \in Members :
    /\ just = p /\ proc[p].ret.kind = "leaveRoom" /\ proc[p].backend = "memory"
    /\ DOMAIN proc[p].pre.members = {p}
    /\ ~IsEmptyHash(proc[p].pre.room) /\ ~IsEmptyHash(proc[p].pre.session)
    /\ proc[p].pre.chat /= <<>>
    /\ redis = EmptyDb

\* the Redis keys the call that socket p has completed wrote to
WrittenKeys(p) ==
  LET q == proc[p]
  IN  IF q.ret.kind = "createRoom" /\ q.ret.success THEN {KeyRoom(q.roomId)}
      ELSE IF q.ret.kind = "checkRoom" /\ q.ret.recovering THEN {KeyRoom(q.roomId)}
      ELSE IF q.ret.kind = "joinRoom" /\ q.ret.success
           THEN {KeyRoomMembers(q.roomId), KeyUser(p)}
                  \cup (IF IsEmptyHash(q.pre.room) THEN {KeyRoom(q.roomId)} ELSE {})
      ELSE IF q.ret.kind = "leaveRoom" /\ q.ret.users /= {} THEN {KeyRoomMembers(q.roomId)}
      ELSE IF q.ret.kind = "saveChatMessage" THEN {KeyRoomChat(q.roomId)}
      ELSE {}

\* C17: when a call that ran on Redis alone (no other call in progress) returns,
\* every key it wrote to (room record, membership hash, session hash, chat list)
\* and that exists has its TTL back at the full ROOM_TTL; leaveRoom with members
\* remaining is one of these calls.
C17_WritesRefreshTtl ==
  \A p \in Members :
    (just = p /\ Quiet /\ proc[p].backend = "redis" /\ proc[p].seen = {}) =>
      \A k \in WrittenKeys(p) :
        Exists(redis, k) => Has(redis.ttl, k) /\ redis.ttl[k] = ROOM_TTL

\* socket p starts a store call in this step
StartsCall(p) ==
  /\ ~InCall(proc[p]) /\ proc'[p] /= proc[p]
  /\ proc'[p].pc /= "idle" /\ proc'[p].backend /= None

\* the getUserSession of socket p has returned a session or null
ReadsSession(p) ==
  /\ proc'[p] /= proc[p]
  /\ proc'[p].ret.kind = "getUserSession"
  /\ ~proc'[p].ret.threw

\* a step in which every call keeps to the backend it took at its start
OneBackendStep ==
  /\ \A p \in Members :
       /\ StartsCall(p) => proc'[p].backend = Active
       /\ InCall(proc[p]) => proc'[p].backend = proc[p].backend
       /\ ReadsSession(p) =>
             proc'[p].ret.exists = ~IsEmptyHash(SessionOn(proc'[p].backend, p))
  /\ memoryStore' /= memoryStore =>
       /\ redis' = redis
       /\ \E p \in Members : proc'[p] /= proc[p] /\ proc'[p].backend = "memory"
  /\ redis' /= redis =>
       /\ memoryStore' = memoryStore
       /\ \E p \in Members : proc'[p] /= proc[p] /\ proc'[p].backend = "redis"

\* C15: a store operation takes the backend that is available when it starts and
\* keeps it until it returns, whatever the availability does meanwhile; a step
\* that writes one backend belongs to a call on that backend and leaves the other
\* backend untouched; getUserSession returns what the backend of the call holds.
C15_OneBackendPerCall == [][OneBackendStep]_vars

\* a joinRoom that began on Redis has written the member, the connection has
\* closed since, and the memory backend holds other data
C15_Witness ==
  \E p \in Members :
    /\ proc[p].pc = "joinRoom:user" /\ proc[p].backend = "redis"
    /\ ~redisAvailable
    /\ memoryStore.members /= EmptyMap

UserLeftEmitted(p) == \E e \in proc[p].emitted : e.ev = "user-left"

\* C18: the disconnect handler of a socket that holds the room of a successful
\* join (socket.currentRoomId) ends, and ends having emitted user-left to a room,
\* whether stopTranscription, getUserSession or leaveRoom fails or not.
C18_DisconnectEmits ==
  \A p \in Members :
    (proc[p].h = "disconnect" /\ proc[p].pc /= "idle" /\ socket[p].currentRoomId /= None)
      ~> (proc[p].h = "disconnect" /\ proc[p].pc = "idle" /\ UserLeftEmitted(p))

\* the disconnect handler has ended after its leaveRoom was rejected
C18_Witness ==
  \E p \in Members :
    /\ proc[p].h = "disconnect" /\ proc[p].pc = "idle"
    /\ proc[p].ret.kind = "leaveRoom" /\ proc[p].ret.threw
    /\ socket[p].currentRoomId /= None
    /\ UserLeftEmitted(p)

\* C19: when the leaveRoom of a leave-room intent, or of a disconnect, is rejected
\* by the backend, the handler still ends having emitted user-left: the leave-room
\* handler to the room of the intent, the disconnect handler to the room the
\* socket holds.
C19_LeaveFailureStillEmits ==
  \A p \in Members :
    (proc[p].pc = "idle" /\ proc[p].ret.kind = "leaveRoom" /\ proc[p].ret.threw) =>
      /\ proc[p].h = "leave-room" =>
           \E e \in proc[p].emitted : e.ev = "user-left" /\ e.to = proc[p].roomId
      /\ (proc[p].h = "disconnect" /\ socket[p].currentRoomId /= None) =>
           \E e \in proc[p].emitted : e.ev = "user-left" /\ e.to = socket[p].currentRoomId

\* C20: the disconnect handler leaves the room named by the session of the socket
\* on the active backend when there is one, otherwise the room the socket holds
\* (socket.currentRoomId), and then emits user-left to that room; it ends without
\* a leaveRoom call, and without user-left, exactly when neither exists.
C20_DisconnectRoomOrder ==
  \A p \in Members :
    proc[p].h = "disconnect" =>
      /\ proc[p].op = "leaveRoom" =>
           /\ proc[p].roomId /= None
           /\ proc[p].roomId = (IF ~IsEmptyHash(proc[p].pre.session)
                                THEN proc[p].pre.session.roomId
                                ELSE socket[p].currentRoomId)
      /\ (proc[p].op = "leaveRoom" /\ proc[p].pc = "idle") =>
           proc[p].emitted = {Emit("user-left", proc[p].roomId, TRUE)}
      /\ (proc[p].op = "getUserSession" /\ proc[p].pc = "idle") =>
           /\ IsEmptyHash(SessionOn(proc[p].backend, p))
           /\ socket[p].currentRoomId = None
           /\ ~UserLeftEmitted(p)

\* the disconnect handler has ended having left the room of the session, the
\* socket holding another room
C20_Witness ==
  \E p \in Members :
    /\ proc[p].h = "disconnect" /\ proc[p].pc = "idle" /\ proc[p].op = "leaveRoom"
    /\ ~IsEmptyHash(proc[p].pre.session)
    /\ socket[p].currentRoomId \notin {None, proc[p].roomId}
    /\ UserLeftEmitted(p)

\* ---------------------------------------------------------------------------
\* Business failures of join and check

\* the join-result events the handler of p has emitted
JoinResults(p) == {e \in proc[p].emitted : e.ev = "join-result"}

\* the handler name of p has ended, no call of it having been rejected
Ended(p, name) ==
  /\ proc[p].h = name
  /\ proc[p].pc = "idle"
  /\ ~proc[p].ret.threw

\* joinRoom has turned the join of p down with error
JoinTurnedDown(p, error) ==
  /\ Ended(p, "join-room")
  /\ proc[p].ret.kind = "joinRoom"
  /\ proc[p].ret.error = error

\* checkRoom has told p that the room does not exist
CheckedAbsent(p) ==
  /\ Ended(p, "check-room")
  /\ proc[p].ret.kind = "checkRoom"
  /\ ~proc[p].ret.exists

Caught(p, name, op) ==
  /\ proc[p].h = name
  /\ proc[p].pc = "idle"
  /\ proc[p].ret.kind = op
  /\ proc[p].ret.threw

\* the handler of p has sent its caller a failure carrying an error
FailureResult(p) ==
  \E e \in proc[p].emitted : e.to = p /\ ~e.ok /\ e.error /= ""

\* C22: when a write to Redis fails during a create, join, chat or leave intent
\* (the store call throws), the caller of the intent receives a failure result
\* carrying an explicit error.
C22_WriteFailureSurfaces ==
  \A p \in Members :
    \/ Caught(p, "create-room", "createRoom")
    \/ Caught(p, "join-room", "joinRoom")
    \/ Caught(p, "chat", "saveChatMessage")
    \/ Caught(p, "leave-room", "leaveRoom")
    => FailureResult(p)

\* C23: intents are atomic under backend failure: when joinRoom throws inside
\* the join-room handler of a member that had neither a membership entry nor a
\* session, the member has neither afterwards; when leaveRoom throws inside the
\* leave-room handler of a member that had both, the member afterwards has both
\* or neither.
C23_FailedIntentAtomic ==
  \A p \in Members :
    LET q == proc[p]
        isMember == p \in DOMAIN MembersOn(q.backend, q.roomId)
        hasSession == ~IsEmptyHash(SessionOn(q.backend, p))
    IN  /\ ( /\ Caught(p, "join-room", "joinRoom")
             /\ p \notin DOMAIN q.pre.members
             /\ IsEmptyHash(q.pre.session) )
           => (~isMember /\ ~hasSession)
        /\ ( /\ Caught(p, "leave-room", "leaveRoom")
             /\ p \in DOMAIN q.pre.members
             /\ ~IsEmptyHash(q.pre.session) )
           => (isMember <=> hasSession)

\* ---------------------------------------------------------------------------
\* Rooms without members

\* backend b holds a record of roomId and no member of it
EmptyRoomOn(b, roomId) ==
  /\ ~IsEmptyHash(RoomOn(b, roomId))
  /\ MembersOn(b, roomId) = EmptyMap

\* C24: a room record without members does not stay for ever: from every state
\* in which no call is in progress and a backend holds a record of the room and
\* no member of it, that backend eventually holds no record of the room, no
\* further call being needed.
C24_EmptyRoomRemoved ==
  \A b \in Backends :
    (Quiet /\ EmptyRoomOn(b, GcRoom)) ~> IsEmptyHash(RoomOn(b, GcRoom))

\* ---------------------------------------------------------------------------
\* Transcription teardown

\* C25: when the leave-room handler of a member of the room has ended, leaveRoom
\* having returned, and when the disconnect handler has ended, the socket has no
\* transcription session (hasActiveSession is false).
C25_LeaveStopsTranscription ==
  \A p \in Members :
    /\ ( /\ Ended(p, "leave-room")
         /\ proc[p].ret.kind = "leaveRoom"
         /\ p \in DOMAIN proc[p].pre.members )
       => ~hasActiveSession(p)
    /\ (proc[p].h = "disconnect" /\ proc[p].pc = "idle") => ~hasActiveSession(p)

\* ---------------------------------------------------------------------------
\* Chat logs and their rooms

\* C26: in every state where no operation is in progress, a backend that holds a
\* non-empty chat log of a room holds a record of the room and at least one
\* member of it.
C26_ChatOnlyForLiveRoom ==
  Quiet =>
    \A b \in Backends, r \in Rooms :
      ChatOn(b, r) /= <<>> =>
        /\ ~IsEmptyHash(RoomOn(b, r))
        /\ MembersOn(b, r) /= EmptyMap

\* ---------------------------------------------------------------------------
\* Concurrent creation

\* the last calls of p and o were createRoom calls on one room with different
\* passwords, each in progress at some time while the other was
CreateRoomRaced(p, o) ==
  /\ p /= o
  /\ \A x \in {p, o} :
       /\ proc[x].pc = "idle"
       /\ proc[x].ret.kind = "createRoom"
       /\ proc[x].backend = "redis"
       /\ "createRoom" \in proc[x].seen
  /\ proc[p].roomId = proc[o].roomId
  /\ proc[p].password /= proc[o].password

\* C27: of two createRoom calls on the same room id with different passwords
\* whose Redis commands interleave, at most one returns success, and the record
\* stored carries the password of the call that returned success.
C27_OneCreatorWins ==
  \A p, o \in Members :
    CreateRoomRaced(p, o) =>
      /\ ~(proc[p].ret.success /\ proc[o].ret.success)
      /\ (proc[p].ret.success /\ Exists(redis, KeyRoom(proc[p].roomId))) =>
           HGetAll(redis, KeyRoom(proc[p].roomId)).password
             = NewRoomData(proc[p].password, 0).password

\* ---------------------------------------------------------------------------
\* joinRoom on a room that does not exist

\* C28: joinRoom on a room id that has neither a record nor members returns the
\* failure 'Room does not exist' and leaves the store as it was, on the Redis
\* and on the memory backend alike.
C28_JoinAbsentRoomFails ==
  \A p \in Members :
    LET q == proc[p]
    IN  ( /\ just = p
          /\ q.ret.kind = "joinRoom"
          /\ IsEmptyHash(q.pre.room)
          /\ q.pre.members = EmptyMap )
        => /\ ~q.ret.success
           /\ q.ret.error = "Room does not exist"
           /\ RoomOn(q.backend, q.roomId) = q.pre.room
           /\ MembersOn(q.backend, q.roomId) = q.pre.members
           /\ SessionOn(q.backend, p) = q.pre.session

\* ---------------------------------------------------------------------------
\* Joining an orphaned room

\* C29: a join intent for a room whose record is absent while it has members
\* recovers the room before the password is looked at: whatever password the
\* joiner supplies, the handler ends with join-result success=true and the record
\* of the room is password-less and marked recovered.
C29_OrphanJoinRecovers ==
  \A p \in Members :
    (Ended(p, "join-room") /\ proc[p].orphaned) =>
      LET roomData == RoomOn(proc[p].backend, proc[p].roomId)
      IN  /\ JoinResults(p) = {Emit("join-result", p, TRUE)}
          /\ ~IsEmptyHash(roomData)
          /\ roomData.hasPassword = "0"
          /\ roomData.password = ""
          /\ "recovered" \in DOMAIN roomData
          /\ roomData.recovered = "true"

\* ---------------------------------------------------------------------------
\* Password protection of a room with members

\* C30: while a room has a member its password protection stays as given at
\* creation: in every state where no operation is in progress, a backend that
\* holds a member and a record of the room, every creation having set the
\* password, holds a record with hasPassword set and that password.
C30_ProtectionKept ==
  Quiet =>
    \A b \in Backends :
      LET roomData == RoomOn(b, LockedRoom)
      IN  (MembersOn(b, LockedRoom) /= EmptyMap /\ ~IsEmptyHash(roomData)) =>
            /\ roomData.hasPassword = "1"
            /\ roomData.password = LockedPassword

\* ---------------------------------------------------------------------------
\* The set of active rooms

\* C31: on Redis, in every state where no operation is in progress, a room id
\* is in the set active_rooms exactly when the record room:<id> exists.
C31_ActiveIffRecord ==
  Quiet =>
    \A r \in Rooms :
      r \in SMembers(redis, KeyActiveRooms) <=> Exists(redis, KeyRoom(r))

\* ---------------------------------------------------------------------------
\* The member maps of the memory store

\* C32: every room id with an entry in memoryStore.members has a non-empty
\* member map and an entry in memoryStore.rooms: the memory store holds no
\* orphaned membership and keeps no empty member map.
C32_MemoryNoOrphans ==
  \A r \in Rooms :
    Has(memoryStore.members, r) =>
      /\ memoryStore.members[r] /= EmptyMap
      /\ Has(memoryStore.rooms, r)

\* a member has just left, on the memory store, a room that keeps another
\* member and its chat log
C32_Witness ==
  \E p \in Members :
    /\ just = p /\ proc[p].ret.kind = "leaveRoom" /\ proc[p].backend = "memory"
    /\ p \in DOMAIN proc[p].pre.members
    /\ Has(memoryStore.members, proc[p].roomId)
    /\ Has(memoryStore.chat, proc[p].roomId)

====
